---- MODULE Spec2Model ----
(***************************************************************************)
(* Model of the mollymon message store (mollymon/contact.py, class DAO):   *)
(* one SQLite table "messages", one connection and one cursor shared by    *)
(* every caller, a threading.Lock taken separately by sql_execute,         *)
(* sql_fetchall and sql_fetchone, and commits done outside the lock.       *)
(*                                                                         *)
(* Two specifications:                                                     *)
(*   Spec     several threads share one DAO; every DAO call is split into  *)
(*            the steps at which the interpreter can switch threads        *)
(*            (lock acquisition, statement + release, commit, return).     *)
(*   SpecSeq  one caller; every DAO call runs to completion in one step,   *)
(*            over a richer set of messages, filters and identifiers.      *)
(***************************************************************************)
EXTENDS Integers, Sequences, FiniteSets, TLC

(* ------------------------------ bounds --------------------------------- *)

\* number of threads sharing the DAO in Spec
NThreads == 2

\* largest number of rows the table holds in Spec
MaxRows == 2

\* largest number of calls made in one run of Spec
MaxCalls == 3

\* largest number of rows the table holds in SpecSeq
MaxSeqRows == 2

Threads == 1..NThreads

(* --------------------------- python values ----------------------------- *)

\* Python's None; an optional argument is None or a one-element tuple <<v>>
None == <<>>

Some(v) == <<v>>

\* a datetime: whole seconds and a sub-second part (0 = none)
DateTime(sec, us) == [sec |-> sec, us |-> us]

\* t1 < t2 on datetimes
DtLess(t1, t2) == t1.sec < t2.sec \/ (t1.sec = t2.sec /\ t1.us < t2.us)

\* TEXT values that hold a time are modelled as tuples of numbers compared
\* lexically: 'YYYY-MM-DD HH:MM:SS' is <<sec>>, and
\* 'YYYY-MM-DD HH:MM:SS.ffffff' is <<sec, us>>, which sorts after <<sec>>.
TextLess(a, b) ==
    \E i \in 1..(Len(a) + 1) :
        /\ \A j \in 1..(i - 1) : j <= Len(b) /\ a[j] = b[j]
        /\ \/ i = Len(a) + 1 /\ Len(b) >= i
           \/ i <= Len(a) /\ i <= Len(b) /\ a[i] < b[i]

TextLeq(a, b) == a = b \/ TextLess(a, b)

\* datetime.strftime('%Y-%m-%d %H:%M:%S'): the sub-second part is dropped
strftime(t) == <<t.sec>>

\* sqlite3's default datetime adapter, datetime.isoformat(" "): the
\* sub-second part is written only when it is not zero
adapt_datetime(t) == IF t.us = 0 THEN <<t.sec>> ELSE <<t.sec, t.us>>

(* ------------------------------ schema --------------------------------- *)

\* the columns of the table, in declaration order
SCHEMA == <<"script_path", "path_info", "tls_client_hash", "ip_addr",
            "time", "message", "read">>

\* ADD_MESSAGE with the first two column names in the wrong order
ADD_MESSAGE_swapped ==
    [kind |-> "INSERT", count |-> FALSE,
     columns |-> <<"path_info", "script_path", "tls_client_hash", "ip_addr",
                   "time", "message", "read">>]

\* INSERT INTO "messages" (<columns>) VALUES (?, ?, ?, ?, ?, ?, ?)
ADD_MESSAGE ==
    [kind |-> "INSERT", count |-> FALSE,
     columns |-> <<"script_path", "path_info", "tls_client_hash", "ip_addr",
                   "time", "message", "read">>]

\* UPDATE "messages" SET read=1 WHERE rowid=?
MARK_READ_SINGLE ==
    [kind |-> "UPDATE", count |-> FALSE, set_read |-> 1, where |-> "rowid=?",
     tail |-> ""]

\* UPDATE "messages" SET read=1 WHERE rowid in      (the text stops there;
\* tail is what a caller appends to it)
MARK_READ_MULTI ==
    [kind |-> "UPDATE", count |-> FALSE, set_read |-> 1, where |-> "rowid in ",
     tail |-> ""]

(* --------------------------- select_query ------------------------------ *)

\* the keyword arguments of get_messages / count_messages: every one is
\* None or Some(value)
Filter(script_path, path_info, tls_client_hash, ip_addr, since, until, read) ==
    [script_path |-> script_path, path_info |-> path_info,
     tls_client_hash |-> tls_client_hash, ip_addr |-> ip_addr,
     since |-> since, until |-> until, read |-> read]

NoFilter == Filter(None, None, None, None, None, None, None)

\* one element of the WHERE list: the column, the operator and the number of
\* '?' placeholders it binds
Clause(col, op, n) == [col |-> col, op |-> op, n |-> n]

\* the "time ..." element chosen from the formatted bounds ("if since and
\* until" / "elif since" / "elif until": a formatted bound is a non-empty
\* string, so it is true exactly when it is not None)
TimeClause(since, until) ==
    IF since # None /\ until # None
    THEN [where |-> <<Clause("time", "BETWEEN", 2)>>,
          params |-> <<since[1], until[1]>>]
    ELSE IF since # None
    THEN [where |-> <<Clause("time", ">", 1)>>, params |-> <<since[1]>>]
    ELSE IF until # None
    THEN [where |-> <<Clause("time", "<", 1)>>, params |-> <<until[1]>>]
    ELSE [where |-> <<>>, params |-> <<>>]

\* an equality filter built under "if x:", which omits an empty string and 0
EqClause_truthy(col, x) ==
    IF x # None /\ (IF col = "read" THEN x[1] # 0 ELSE x[1] # "")
    THEN [where |-> <<Clause(col, "=", 1)>>, params |-> <<x[1]>>]
    ELSE [where |-> <<>>, params |-> <<>>]

\* "if x is not None: where.append('col = ?'); params.append(x)"
EqClause(col, x) ==
    IF x # None
    THEN [where |-> <<Clause(col, "=", 1)>>, params |-> <<x[1]>>]
    ELSE [where |-> <<>>, params |-> <<>>]

\* "if rowid: where.append('rowid IN (?,...)'); params.extend(rowid)"
InClause(rowid) ==
    IF rowid # None /\ rowid # <<>>
    THEN [where |-> <<Clause("rowid", "IN", Len(rowid))>>, params |-> rowid]
    ELSE [where |-> <<>>, params |-> <<>>]

\* DAO.select_query: the statement and its parallel parameter list
select_query(count, f, rowid) ==
    LET since == IF f.since # None THEN Some(strftime(f.since[1])) ELSE None
        until == IF f.until # None THEN Some(strftime(f.until[1])) ELSE None
        t  == TimeClause(since, until)
        sp == EqClause("script_path", f.script_path)
        pi == EqClause("path_info", f.path_info)
        th == EqClause("tls_client_hash", f.tls_client_hash)
        ip == EqClause("ip_addr", f.ip_addr)
        rd == EqClause("read", f.read)
        ri == InClause(rowid)
    IN  [query |-> [kind |-> "SELECT", count |-> count,
                    where |-> t.where \o sp.where \o pi.where \o th.where
                              \o ip.where \o rd.where \o ri.where],
         params |-> t.params \o sp.params \o pi.params \o th.params
                    \o ip.params \o rd.params \o ri.params]

(* ------------------------- the SQL statements -------------------------- *)

\* one WHERE element on one row, p being the parameters it binds
ClauseHolds(c, p, rowid, row) ==
    IF c.op = "BETWEEN" THEN TextLeq(p[1], row[c.col]) /\ TextLeq(row[c.col], p[2])
    ELSE IF c.op = ">" THEN TextLess(p[1], row[c.col])
    ELSE IF c.op = "<" THEN TextLess(row[c.col], p[1])
    ELSE IF c.op = "=" THEN row[c.col] = p[1]
    ELSE \E k \in 1..c.n : p[k] = rowid

\* the WHERE list joined by AND, parameters bound left to right
RECURSIVE WhereHolds(_, _, _, _)
WhereHolds(where, params, rowid, row) ==
    IF where = <<>> THEN TRUE
    ELSE LET c == Head(where)
         IN  /\ ClauseHolds(c, SubSeq(params, 1, c.n), rowid, row)
             /\ WhereHolds(Tail(where), SubSeq(params, c.n + 1, Len(params)),
                           rowid, row)

\* "rowid, *": the row identifier followed by the columns in schema order
ResultRow(rowid, row) == <<rowid>> \o [k \in 1..Len(SCHEMA) |-> row[SCHEMA[k]]]

\* the row identifiers a SELECT matches, in increasing order
Matching(query, params, tab) ==
    SelectSeq([i \in 1..Len(tab) |-> i],
              LAMBDA i : WhereHolds(query.where, params, i, tab[i]))

\* the result set of a SELECT: one row holding COUNT(*), or the rows
RunSelect(query, params, tab) ==
    LET ids == Matching(query, params, tab)
    IN  IF query.count THEN << <<Len(ids)>> >>
        ELSE [k \in 1..Len(ids) |-> ResultRow(ids[k], tab[ids[k]])]

\* the row an INSERT stores: each named column takes the parameter at its
\* position in the column list
InsertedRow(query, params) ==
    [c \in {query.columns[k] : k \in 1..Len(query.columns)} |->
        params[CHOOSE k \in 1..Len(query.columns) : query.columns[k] = c]]

\* RunUpdate without its WHERE: the read flag of every row is set
RunUpdate_all(query, params, tab) ==
    [i \in 1..Len(tab) |-> [tab[i] EXCEPT !["read"] = query.set_read]]

\* RunUpdate flipping the read flag of the named rows instead of setting it
RunUpdate_toggle(query, params, tab) ==
    [i \in 1..Len(tab) |->
        IF \E k \in 1..Len(params) : params[k] = i
        THEN [tab[i] EXCEPT !["read"] = 1 - tab[i].read]
        ELSE tab[i]]

\* the table after UPDATE ... SET read=<v> on the rows named by params
RunUpdate(query, params, tab) ==
    [i \in 1..Len(tab) |->
        IF \E k \in 1..Len(params) : params[k] = i
        THEN [tab[i] EXCEPT !["read"] = query.set_read]
        ELSE tab[i]]

\* SQLite's grammar for the two UPDATE texts: "rowid=?" is complete as it
\* stands; "rowid in " must be followed by a parenthesised list, and a bare
\* "?, ?" after it is a syntax error
SyntaxOk(query) ==
    \/ query.where = "rowid=?" /\ query.tail = ""
    \/ query.where = "rowid in " /\ query.tail = "(?, ...)"

\* the exceptions cursor.execute raises
SyntaxError == "OperationalError: syntax error"

IOError == "OperationalError: disk I/O error"

\* cursor_execute with an INSERT that overwrites the newest row instead of
\* adding one
cursor_execute_replace(query, params, tab, io) ==
    IF query.kind = "SELECT"
    THEN [exc |-> "", table |-> tab, rows |-> RunSelect(query, params, tab)]
    ELSE IF query.kind = "UPDATE" /\ ~SyntaxOk(query)
    THEN [exc |-> SyntaxError, table |-> tab, rows |-> <<>>]
    ELSE IF ~io
    THEN [exc |-> IOError, table |-> tab, rows |-> <<>>]
    ELSE IF query.kind = "INSERT"
    THEN [exc |-> "",
          table |-> IF tab = <<>> THEN <<InsertedRow(query, params)>>
                    ELSE [tab EXCEPT ![Len(tab)] = InsertedRow(query, params)],
          rows |-> <<>>]
    ELSE [exc |-> "", table |-> RunUpdate(query, params, tab), rows |-> <<>>]

\* cursor_execute with a failing UPDATE that has already marked the first
\* row it names when it raises
cursor_execute_partial(query, params, tab, io) ==
    IF query.kind = "SELECT"
    THEN [exc |-> "", table |-> tab, rows |-> RunSelect(query, params, tab)]
    ELSE IF query.kind = "UPDATE" /\ ~SyntaxOk(query)
    THEN [exc |-> SyntaxError,
          table |-> RunUpdate(query, <<params[1]>>, tab), rows |-> <<>>]
    ELSE IF ~io
    THEN [exc |-> IOError, table |-> tab, rows |-> <<>>]
    ELSE IF query.kind = "INSERT"
    THEN [exc |-> "", table |-> Append(tab, InsertedRow(query, params)),
          rows |-> <<>>]
    ELSE [exc |-> "", table |-> RunUpdate(query, params, tab), rows |-> <<>>]

\* cursor.execute(query, params) on table tab; io is FALSE when the storage
\* refuses a write.  exc is the exception raised ("" for none); a statement
\* that fails changes nothing and leaves the cursor without rows.
cursor_execute(query, params, tab, io) ==
    IF query.kind = "SELECT"
    THEN [exc |-> "", table |-> tab, rows |-> RunSelect(query, params, tab)]
    ELSE IF query.kind = "UPDATE" /\ ~SyntaxOk(query)
    THEN [exc |-> SyntaxError, table |-> tab, rows |-> <<>>]
    ELSE IF ~io
    THEN [exc |-> IOError, table |-> tab, rows |-> <<>>]
    ELSE IF query.kind = "INSERT"
    THEN [exc |-> "", table |-> Append(tab, InsertedRow(query, params)),
          rows |-> <<>>]
    ELSE [exc |-> "", table |-> RunUpdate(query, params, tab), rows |-> <<>>]

(* ---------------------------- cursor reads ----------------------------- *)

\* what the cursor keeps of a statement that has no more rows to step: the
\* statement has been reset and only its kind is still of interest
Finished(query) == [kind |-> query.kind, count |-> query.count]

\* the shared cursor: the statement last executed on it, the thread that
\* executed it (0 = the constructor), the rows of its result set not yet
\* fetched as computed when it was executed, how many were fetched, and
\* whether it is a row-returning SELECT not yet stepped to its end
Cursor(owner, query, params, rows) ==
    IF query.kind = "SELECT" /\ ~query.count
    THEN [owner |-> owner, query |-> query, params |-> params, rows |-> rows,
          taken |-> 0, live |-> TRUE]
    ELSE [owner |-> owner, query |-> Finished(query), params |-> <<>>,
          rows |-> rows, taken |-> 0, live |-> FALSE]

\* the cursor once its statement has been stepped to the end
Exhausted(cur) ==
    [cur EXCEPT !.query = Finished(cur.query), !.params = <<>>,
                !.rows = <<>>, !.taken = 0, !.live = FALSE]

\* the statement a DAO leaves on its cursor when constructed (CREATE TABLE)
SchemaCursor == Cursor(0, [kind |-> "CREATE", count |-> FALSE], <<>>, <<>>)

Drop(seq, n) == SubSeq(seq, n + 1, Len(seq))

\* The rows a fetch can still deliver.  A row-returning SELECT is stepped
\* while it is fetched, and SQLite leaves it undefined whether a statement
\* run on the same connection after the SELECT started is seen by it: the
\* rows are those of the table as it was at execute time or as it is now.
Pending(cur, tab) ==
    {cur.rows} \cup
    IF cur.live
    THEN {Drop(RunSelect(cur.query, cur.params, tab), cur.taken)}
    ELSE {}

\* cursor.fetchall() delivering rows: every pending row, none left after
sql_fetchall(cur, rows) ==
    [val |-> rows, cursor |-> Exhausted(cur)]

\* cursor.fetchone() delivering from rows: the first pending row or None
sql_fetchone(cur, rows) ==
    IF rows = <<>>
    THEN [val |-> None, cursor |-> Exhausted(cur)]
    ELSE [val |-> Some(Head(rows)),
          cursor |-> [cur EXCEPT !.rows = Tail(cur.rows),
                                 !.taken = cur.taken + 1]]

(* --------------------------- the DAO methods --------------------------- *)

\* the arguments of add_message
Msg(script_path, path_info, tls_client_hash, ip_addr, time, msg) ==
    [script_path |-> script_path, path_info |-> path_info,
     tls_client_hash |-> tls_client_hash, ip_addr |-> ip_addr,
     time |-> time, msg |-> msg]

\* add_message: the statement and the parameters it binds (the datetime goes
\* through sqlite3's adapter, read is bound to 0)
add_message_stmt(m) ==
    [query |-> ADD_MESSAGE,
     params |-> <<m.script_path, m.path_info, m.tls_client_hash, m.ip_addr,
                  adapt_datetime(m.time), m.msg, 0>>]

\* get_messages: select_query without count and without rowid
get_messages_stmt(f) == select_query(FALSE, f, None)

\* count_messages not passing its read argument on to select_query
count_messages_stmt_noread(f) ==
    select_query(TRUE, [f EXCEPT !.read = None], None)

\* count_messages: select_query with count=True
count_messages_stmt(f) == select_query(TRUE, f, None)

\* mark_read with at least one identifier: ', '.join('?' * len(rowid)) is
\* appended to MARK_READ_MULTI as it is when there are several
mark_read_stmt(rowid) ==
    IF Len(rowid) > 1
    THEN [query |-> [MARK_READ_MULTI EXCEPT !.tail = "?, ..."],
          params |-> rowid]
    ELSE [query |-> MARK_READ_SINGLE, params |-> <<rowid[1]>>]

\* a call of a DAO method
Call(op, args) == [op |-> op, args |-> args]

NoCall == Call("", <<>>)

\* the statement a call executes
Statement(c) ==
    IF c.op = "add_message" THEN add_message_stmt(c.args)
    ELSE IF c.op = "get_messages" THEN get_messages_stmt(c.args)
    ELSE IF c.op = "count_messages" THEN count_messages_stmt(c.args)
    ELSE mark_read_stmt(c.args)

\* mark_read executes no statement for an empty list ("elif len(rowid) == 1"
\* is the last branch), every other call executes one
HasStatement(c) == ~(c.op = "mark_read" /\ Len(c.args) = 0)

\* the calls that fetch after executing; the others commit
Fetches(c) == c.op \in {"get_messages", "count_messages"}

\* what a call returns or raises
Ret(exc, val) == [exc |-> exc, val |-> val]

NoRet == Ret("", None)

\* the value get_messages / count_messages make of what they fetched:
\* the list itself, or sql_fetchone()[0], which raises TypeError on None and
\* is the first column of the row otherwise
FetchRet(c, fetched) ==
    IF c.op = "get_messages" THEN Ret("", fetched)
    ELSE IF fetched = None THEN Ret("TypeError", None)
    ELSE Ret("", fetched[1][1])

(* ------------------------------- state --------------------------------- *)

VARIABLES
    table,      \* the rows of "messages" as the connection sees them
    durable,    \* the rows as of the last commit
    lock,       \* DAO.lock: the thread holding it, 0 when free
    cursor,     \* DAO.cursor
    pc,         \* where each thread is in its call
    call,       \* the call each thread is making (or made last)
    ret,        \* what that call returned or raised
    hist,       \* every value the table has had, in order (history)
    start,      \* for each thread, Len(hist) when its call started
    ncalls,     \* the number of calls made so far
    nadded      \* the number of add_message calls that completed (history)

vars == <<table, durable, lock, cursor, pc, call, ret, hist, start, ncalls,
          nadded>>

\* DAO.__init__: the lock is free, the table exists and is empty, the
\* CREATE TABLE statement has been executed on the cursor and committed
Init ==
    /\ table = <<>>
    /\ durable = <<>>
    /\ lock = 0
    /\ cursor = SchemaCursor
    /\ pc = [t \in Threads |-> "idle"]
    /\ call = [t \in Threads |-> NoCall]
    /\ ret = [t \in Threads |-> NoRet]
    /\ hist = <<(<<>>)>>
    /\ start = [t \in Threads |-> 1]
    /\ ncalls = 0
    /\ nadded = 0

(* ------------------------- inputs of the calls ------------------------- *)

\* the message thread t inserts in Spec: every thread has its own
ConcMsg(t) == Msg("/s", "p", "", "a", DateTime(t, 0), "m1")

\* the read=0 filter on its own
Unread == Filter(None, None, None, None, None, None, Some(0))

\* the identifier lists threads mark read in Spec: one row, several rows
ConcIds == {<<1>>, <<1, 2>>}

\* the calls thread t makes in Spec
ConcCalls(t) ==
    {Call("add_message", ConcMsg(t)),
     Call("get_messages", NoFilter),
     Call("count_messages", Unread)}
    \cup {Call("mark_read", ids) : ids \in ConcIds}

\* the inserts that have been called and have not yet executed
PendingAdds ==
    Cardinality({t \in Threads : call[t].op = "add_message"
                                 /\ pc[t] \in {"acquire", "execute"}})

(* ------------------------- the steps of a call ------------------------- *)

\* thread t calls a DAO method
Invoke(t) ==
    /\ pc[t] = "idle"
    /\ ncalls < MaxCalls
    /\ ncalls' = ncalls + 1
    /\ \E c \in ConcCalls(t) :
        /\ c.op = "add_message" => Len(table) + PendingAdds < MaxRows
        /\ call' = [call EXCEPT ![t] = c]
        /\ pc' = [pc EXCEPT ![t] = IF HasStatement(c) THEN "acquire"
                                   ELSE "commit"]
    /\ ret' = [ret EXCEPT ![t] = NoRet]
    /\ start' = [start EXCEPT ![t] = Len(hist)]
    /\ UNCHANGED <<table, durable, lock, cursor, hist, nadded>>

\* sql_execute, "with self.lock:": t takes the lock when it is free
sql_execute_enter(t) ==
    /\ pc[t] = "acquire"
    /\ lock = 0
    /\ lock' = t
    /\ pc' = [pc EXCEPT ![t] = "execute"]
    /\ UNCHANGED <<table, durable, cursor, call, ret, hist, start, ncalls, nadded>>

\* sql_execute, "self.cursor.execute(...)" and the end of the with block:
\* the statement runs on the shared cursor and the lock is released, also
\* when the statement raises
sql_execute(t) ==
    /\ pc[t] = "execute"
    /\ \E io \in BOOLEAN :
        LET st == Statement(call[t])
            e  == cursor_execute(st.query, st.params, table, io)
        IN  /\ table' = e.table
            /\ cursor' = Cursor(t, st.query, st.params, e.rows)
            /\ hist' = IF e.table = table THEN hist ELSE Append(hist, e.table)
            /\ IF e.exc # ""
               THEN /\ ret' = [ret EXCEPT ![t] = Ret(e.exc, None)]
                    /\ pc' = [pc EXCEPT ![t] = "done"]
               ELSE /\ ret' = ret
                    /\ pc' = [pc EXCEPT ![t] = IF Fetches(call[t])
                                               THEN "fetch_acquire"
                                               ELSE "commit"]
    /\ lock' = 0
    /\ UNCHANGED <<durable, call, start, ncalls, nadded>>

\* sql_fetchall / sql_fetchone, "with self.lock:": a second acquisition
sql_fetch_enter(t) ==
    /\ pc[t] = "fetch_acquire"
    /\ lock = 0
    /\ lock' = t
    /\ pc' = [pc EXCEPT ![t] = "fetch"]
    /\ UNCHANGED <<table, durable, cursor, call, ret, hist, start, ncalls, nadded>>

\* sql_fetchall / sql_fetchone, the fetch on the shared cursor and the end
\* of the with block: whatever the cursor holds now is what t gets
sql_fetch(t) ==
    /\ pc[t] = "fetch"
    /\ \E rows \in Pending(cursor, table) :
        LET f == IF call[t].op = "get_messages"
                 THEN sql_fetchall(cursor, rows)
                 ELSE sql_fetchone(cursor, rows)
        IN  /\ cursor' = f.cursor
            /\ ret' = [ret EXCEPT ![t] = FetchRet(call[t], f.val)]
    /\ lock' = 0
    /\ pc' = [pc EXCEPT ![t] = "done"]
    /\ UNCHANGED <<table, durable, call, hist, start, ncalls, nadded>>

\* "self.conn.commit()": outside the lock; everything executed on the
\* connection so far becomes durable
commit(t) ==
    /\ pc[t] = "commit"
    /\ durable' = table
    /\ pc' = [pc EXCEPT ![t] = "done"]
    /\ nadded' = IF call[t].op = "add_message" THEN nadded + 1 ELSE nadded
    /\ UNCHANGED <<table, lock, cursor, call, ret, hist, start, ncalls>>

\* the call returns to its caller; the history keeps only the values the
\* table has had since the earliest start of a call still in progress
Return(t) ==
    /\ pc[t] = "done"
    /\ pc' = [pc EXCEPT ![t] = "idle"]
    /\ call' = [call EXCEPT ![t] = NoCall]
    /\ ret' = [ret EXCEPT ![t] = NoRet]
    /\ LET active == {u \in Threads \ {t} : pc[u] # "idle"}
           first  == IF active = {} THEN Len(hist)
                     ELSE CHOOSE n \in {start[u] : u \in active} :
                              \A u \in active : n <= start[u]
       IN  /\ hist' = Drop(hist, first - 1)
           /\ start' = [u \in Threads |->
                           IF u \in active THEN start[u] - (first - 1) ELSE 1]
    /\ UNCHANGED <<table, durable, lock, cursor, ncalls, nadded>>

Next ==
    \E t \in Threads :
        \/ Invoke(t)
        \/ sql_execute_enter(t)
        \/ sql_execute(t)
        \/ sql_fetch_enter(t)
        \/ sql_fetch(t)
        \/ commit(t)
        \/ Return(t)

Spec == Init /\ [][Next]_vars

(* ------------------- whole calls by a single caller -------------------- *)

\* A DAO method run from call to return with no other thread in between:
\* execute, then fetch (get_messages, count_messages) or commit (add_message,
\* mark_read); an exception raised by execute ends the call before either.
\* caller is the thread, tab and cur are the table and the cursor before.
RunCall(caller, c, tab, cur, io) ==
    IF ~HasStatement(c)
    THEN [table |-> tab, cursor |-> cur, ret |-> NoRet, commits |-> TRUE]
    ELSE
    LET st == Statement(c)
        e  == cursor_execute(st.query, st.params, tab, io)
        c1 == Cursor(caller, st.query, st.params, e.rows)
    IN  IF e.exc # ""
        THEN [table |-> e.table, cursor |-> c1, ret |-> Ret(e.exc, None),
              commits |-> FALSE]
        ELSE IF Fetches(c)
        THEN LET f == IF c.op = "get_messages"
                      THEN sql_fetchall(c1, c1.rows)
                      ELSE sql_fetchone(c1, c1.rows)
             IN  [table |-> e.table, cursor |-> f.cursor,
                  ret |-> FetchRet(c, f.val), commits |-> FALSE]
        ELSE [table |-> e.table, cursor |-> c1, ret |-> NoRet,
              commits |-> TRUE]

\* get_messages(**f) on table tab, by a single caller
get_messages(f, tab) ==
    RunCall(1, Call("get_messages", f), tab, SchemaCursor, TRUE).ret

\* count_messages(**f) on table tab, by a single caller
count_messages(f, tab) ==
    RunCall(1, Call("count_messages", f), tab, SchemaCursor, TRUE).ret

(* -------------------------- inputs of SpecSeq -------------------------- *)

\* the datetimes used as message times and as range bounds
SeqTimes ==
    {DateTime(1, 0), DateTime(1, 5), DateTime(2, 0), DateTime(2, 5),
     DateTime(3, 0)}

\* the messages inserted: empty and non-empty fields, whole-second and
\* sub-second times
SeqMsgs ==
    {Msg("/s", "p", "", "a", DateTime(1, 0), "m1"),
     Msg("/s", "", "h", "b", DateTime(1, 5), ""),
     Msg("", "p", "", "a", DateTime(2, 0), "m3"),
     Msg("/t", "q", "h", "", DateTime(2, 5), "m4"),
     Msg("/s", "p", "", "b", DateTime(3, 0), "m5")}

\* either omitted or given as v
Opt(v) == {None, Some(v)}

\* every combination of the seven filters, each omitted or given
ComboFilters ==
    {Filter(sp, pi, th, ip, si, un, rd) :
        sp \in Opt("/s"), pi \in Opt("p"), th \in Opt(""), ip \in Opt("a"),
        si \in Opt(DateTime(1, 5)), un \in Opt(DateTime(2, 5)),
        rd \in Opt(0)}

\* every time range: one bound, the other, or both
RangeFilters ==
    {Filter(None, None, None, None, si, un, None) :
        si \in {None} \cup {Some(t) : t \in SeqTimes},
        un \in {None} \cup {Some(t) : t \in SeqTimes}}

\* the read filter and the empty-string filters on their own
FlagFilters ==
    {Filter(None, None, None, None, None, None, Some(1)),
     Filter(Some(""), None, None, None, None, None, None),
     Filter(None, Some(""), None, None, None, None, None),
     Filter(None, None, Some("h"), None, None, None, None),
     Filter(None, None, None, Some(""), None, None, None)}

SeqFilters == ComboFilters \cup RangeFilters \cup FlagFilters

\* the identifier lists marked read: empty, one, several, repeated, unknown
SeqIds ==
    {<<>>} \cup {<<i>> : i \in 1..(MaxSeqRows + 1)}
    \cup {<<i, j>> : i, j \in 1..(MaxSeqRows + 1)}
    \cup {[k \in 1..MaxSeqRows |-> k]}

(* ------------------------- actions of SpecSeq -------------------------- *)

\* the single caller makes call c, which runs to its return
SeqCall(c, io) ==
    LET r == RunCall(1, c, table, cursor, io)
    IN  /\ pc[1] = "idle"
        /\ pc' = [pc EXCEPT ![1] = "done"]
        /\ table' = r.table
        /\ cursor' = r.cursor
        /\ durable' = IF r.commits THEN r.table ELSE durable
        /\ call' = [call EXCEPT ![1] = c]
        /\ ret' = [ret EXCEPT ![1] = r.ret]
        /\ nadded' = IF c.op = "add_message" /\ r.commits THEN nadded + 1
                      ELSE nadded
        /\ UNCHANGED <<lock, hist, start, ncalls>>

SeqAddMessage ==
    /\ Len(table) < MaxSeqRows
    /\ \E m \in SeqMsgs, io \in BOOLEAN : SeqCall(Call("add_message", m), io)

SeqGetMessages ==
    \E f \in SeqFilters : SeqCall(Call("get_messages", f), TRUE)

SeqCountMessages ==
    \E f \in SeqFilters : SeqCall(Call("count_messages", f), TRUE)

SeqMarkRead ==
    \E ids \in SeqIds, io \in BOOLEAN : SeqCall(Call("mark_read", ids), io)

\* the call returns to the single caller
SeqReturn == Return(1)

NextSeq ==
    \/ SeqReturn
    \/ SeqAddMessage
    \/ SeqGetMessages
    \/ SeqCountMessages
    \/ SeqMarkRead

SpecSeq == Init /\ [][NextSeq]_vars

(* ===================== the inbound request handler ===================== *)

\* the most rows the handler's table grows to
MaxHandlerRows == 2

\* get_input: the bytes of a 10 (input) response, f'10 {prompt}\r\n'
get_input(prompt) == <<"10", " ", prompt, "\r\n">>

\* display_content: a 20 (OK) response, f'20 {content_type}\r\n{content}\n'
display_content(content, content_type) ==
    <<"20", " ", content_type, "\r\n", content, "\n">>

\* temp_failure: a 40 (temporary failure) response, f'40 {msg}\r\n'
temp_failure(msg) == <<"40", " ", msg, "\r\n">>

\* urllib.parse.unquote on the query strings of the model: a %20 escape
\* becomes a space, text without escapes is returned as it is
unquote(s) == IF s = "a%20b" THEN "a b" ELSE s

\* env.get(key, default) on an environment whose entries are None or Some(v)
EnvGet(env, key, default) == IF env[key] = None THEN default ELSE env[key][1]

\* the request environments: SCRIPT_PATH, PATH_INFO, QUERY_STRING and
\* REMOTE_ADDR are always set by the server, TLS_CLIENT_HASH only for a
\* request with a client certificate
HandlerEnvs ==
    [SCRIPT_PATH : {Some("/s")}, PATH_INFO : {Some(""), Some("p")},
     TLS_CLIENT_HASH : {None, Some("h")},
     QUERY_STRING : {Some(""), Some("hello"), Some("a%20b")},
     REMOTE_ADDR : {Some("a")}]

\* the values datetime.now() takes
HandlerTimes == {DateTime(1, 0), DateTime(1, 5)}

\* what produce does when there is no message: nothing is executed
NoStatement(tab, cur) ==
    [table |-> tab, cursor |-> cur, ret |-> NoRet, commits |-> FALSE]

\* produce that tries the insert a second time when the first attempt fails
produce_retry(env, now, tab, cur, io) ==
    LET query == unquote(EnvGet(env, "QUERY_STRING", None))
        m == Msg(EnvGet(env, "SCRIPT_PATH", None),
                 EnvGet(env, "PATH_INFO", None),
                 EnvGet(env, "TLS_CLIENT_HASH", ""),
                 EnvGet(env, "REMOTE_ADDR", None), now, query)
    IN  IF query # ""
        THEN [store |-> RunCall(1, Call("add_message", m), tab, cur, TRUE),
              logged |-> IF io THEN "" ELSE IOError,
              output |-> display_content("Thank you for your message!",
                                         "text/plain")]
        ELSE [store |-> NoStatement(tab, cur), logged |-> "",
              output |-> get_input("Please enter your message.")]

\* RequestHandler.produce on environment env at time now: what the
\* add_message it makes does to the store (the table and the cursor it
\* leaves, whether it committed), the exception it logs and the response it
\* writes to output
produce(env, now, tab, cur, io) ==
    LET query == unquote(EnvGet(env, "QUERY_STRING", None))
        m == Msg(EnvGet(env, "SCRIPT_PATH", None),
                 EnvGet(env, "PATH_INFO", None),
                 EnvGet(env, "TLS_CLIENT_HASH", ""),
                 EnvGet(env, "REMOTE_ADDR", None), now, query)
    IN  IF query # ""
        THEN \* try: add_message, thank you; except: log, temporary failure
             CHOOSE p \in
                {[store |-> r, logged |-> r.ret.exc,
                  output |-> IF r.ret.exc = ""
                             THEN display_content("Thank you for your message!",
                                                  "text/plain")
                             ELSE temp_failure(
                                 "Something went wrong. Error has been logged.")] :
                    r \in {RunCall(1, Call("add_message", m), tab, cur, io)}} :
                TRUE
        ELSE [store |-> NoStatement(tab, cur), logged |-> "",
              output |-> get_input("Please enter your message.")]

\* the server handles one request: produce runs to the end and its response
\* is written
HandlerProduce ==
    /\ pc[1] = "idle"
    /\ Len(table) < MaxHandlerRows
    /\ \E env \in HandlerEnvs, now \in HandlerTimes, io \in BOOLEAN :
        \E r \in {produce(env, now, table, cursor, io)} :
            /\ pc' = [pc EXCEPT ![1] = "done"]
            /\ table' = r.store.table
            /\ cursor' = r.store.cursor
            /\ durable' = IF r.store.commits THEN r.store.table ELSE durable
            /\ call' = [call EXCEPT ![1] =
                           Call("produce", [env |-> env, now |-> now, io |-> io])]
            /\ ret' = [ret EXCEPT ![1] = Ret(r.logged, r.output)]
            /\ nadded' = IF r.store.commits THEN nadded + 1 ELSE nadded
            /\ UNCHANGED <<lock, hist, start, ncalls>>

\* the response has been sent and the server waits for the next request
HandlerReturn == Return(1)

NextHandler ==
    \/ HandlerProduce
    \/ HandlerReturn

SpecHandler == Init /\ [][NextHandler]_vars

(* ===================== the print-messages command ====================== *)

\* the most rows the table grows to while messages are printed
MaxPrintRows == 3

\* the messages other callers insert while the command runs
PrintMsgs ==
    {Msg("/s", "p", "", "a", DateTime(1, 0), "m1"),
     Msg("/s", "", "h", "b", DateTime(2, 5), "")}

\* the arguments of print_messages
PrintArgs ==
    [since : {None, Some(DateTime(1, 5))}, unread_only : BOOLEAN,
     mark_read : BOOLEAN]

\* "read=(0 if unread_only else None)" with the since given
PrintFilter(a) ==
    Filter(None, None, None, None, a.since, None,
           IF a.unread_only THEN Some(0) ELSE None)

\* what the loop prints for one result row: the six values and bool(read)
PrintedBlock(r) == <<r[2], r[3], r[4], r[5], r[6], r[7], r[8] # 0>>

\* first half of print_messages: the query, and the loop that prints every
\* result
PrintQuery ==
    /\ pc[1] = "idle"
    /\ \E a \in PrintArgs :
        \E r \in {RunCall(1, Call("get_messages", PrintFilter(a)), table,
                          cursor, TRUE)} :
            /\ pc' = [pc EXCEPT ![1] = "printed"]
            /\ cursor' = r.cursor
            /\ call' = [call EXCEPT ![1] = Call("print_messages", a)]
            /\ ret' = [ret EXCEPT ![1] =
                  Ret(r.ret.exc,
                      [results |-> r.ret.val,
                       out |-> [k \in 1..Len(r.ret.val) |->
                                   PrintedBlock(r.ret.val[k])]])]
            /\ UNCHANGED <<table, durable, lock, hist, start, ncalls, nadded>>

\* "dao.mark_read(list(r[0] for r in results))"
print_messages_mark(results, tab, cur, io) ==
    RunCall(1, Call("mark_read", [k \in 1..Len(results) |-> results[k][1]]),
            tab, cur, io)

\* second half of print_messages: "if mark_read: dao.mark_read(...)"
PrintMark ==
    /\ pc[1] = "printed"
    /\ \E io \in BOOLEAN :
        \E r \in {print_messages_mark(ret[1].val.results, table, cursor, io)} :
            /\ pc' = [pc EXCEPT ![1] = "done"]
            /\ IF call[1].args.mark_read
               THEN /\ table' = r.table
                    /\ cursor' = r.cursor
                    /\ durable' = IF r.commits THEN r.table ELSE durable
                    /\ ret' = [ret EXCEPT ![1].exc = r.ret.exc]
               ELSE UNCHANGED <<table, cursor, durable, ret>>
            /\ UNCHANGED <<call, lock, hist, start, ncalls, nadded>>

\* another caller, with a connection of its own, inserts a message
PrintInsert ==
    \E m \in PrintMsgs :
        \E r \in {RunCall(2, Call("add_message", m), table, SchemaCursor, TRUE)} :
            /\ Len(table) < MaxPrintRows
            /\ table' = r.table
            /\ durable' = r.table
            /\ nadded' = nadded + 1
            /\ UNCHANGED <<cursor, pc, call, ret, lock, hist, start, ncalls>>

\* the command ends
PrintReturn == Return(1)

NextPrint ==
    \/ PrintQuery
    \/ PrintMark
    \/ PrintInsert
    \/ PrintReturn

SpecPrint == Init /\ [][NextPrint]_vars

(* ========================= the log parsers ============================= *)

\* the most lines a log file of the model has
MaxLogLines == 3

\* A line of text is the sequence of its tokens and of the whitespace between
\* and around them; a path is the sequence of its pieces, cut where the
\* report tests a prefix.
Whitespace == {" ", "\t", "\n"}

\* "line.strip().split()": the tokens, without the whitespace
split(line) == SelectSeq(line, LAMBDA x : x \notin Whitespace)

\* dateutil's parse on the timestamps of the access log: the wall-clock hour
\* and the UTC offset each text stands for; any other text raises
AccessStamps ==
    ("2022-01-01T01:00Z" :> [wall |-> 1, utcoffset |-> 0]) @@
    ("2022-01-01T02:00Z" :> [wall |-> 2, utcoffset |-> 0]) @@
    ("2022-01-01T03:00Z" :> [wall |-> 3, utcoffset |-> 0]) @@
    ("2022-01-01T03:00+01:00" :> [wall |-> 3, utcoffset |-> 1])

\* dateutil's parse on ' '.join(tokens[0:2]) of an error-log line: a date and
\* a time, or a date alone (midnight), read as local time of a host on UTC
ErrorStamps ==
    (<<"2022/01/01", "01:00:00">> :> [wall |-> 1, utcoffset |-> 0]) @@
    (<<"2022/01/01", "02:00:00">> :> [wall |-> 2, utcoffset |-> 0]) @@
    (<<"2022/01/01", "03:00:00">> :> [wall |-> 3, utcoffset |-> 0]) @@
    (<<"2022/01/01">> :> [wall |-> 0, utcoffset |-> 0])

\* "dt.astimezone(timezone.utc)": the instant, in hours UTC
astimezone_utc(dt) == dt.wall - dt.utcoffset

\* int() on the response-code texts: any other text raises ValueError
IntTexts == ("20" :> 20) @@ ("51" :> 51) @@ ("59" :> 59)

\* the pieces of a URL
Url(netloc, path) ==
    [netloc |-> netloc, path |-> path, params |-> "", query |-> "",
     fragment |-> ""]

\* urlparse on the request texts of the model
UrlTexts ==
    ("gemini://h/" :> Url("h", <<"/">>)) @@
    ("gemini://h/about" :> Url("h", <<"/about">>)) @@
    ("gemini://h/remini/x" :> Url("h", <<"/remini", "/x">>)) @@
    ("gemini://h/gemlog/posts/atom.xml" :>
        Url("h", <<"/gemlog", "/posts/", "atom.xml">>)) @@
    ("gemini://h/gemlog/posts/2021-b.gmi" :>
        Url("h", <<"/gemlog", "/posts/", "202", "1-b.gmi">>)) @@
    ("gemini://h/gemlog/posts/2022-a.gmi" :>
        Url("h", <<"/gemlog", "/posts/", "202", "2-a.gmi">>))

\* urlparse(req_body): the empty text has every piece empty
urlparse(req_body) == IF req_body = "" THEN Url("", <<>>) ELSE UrlTexts[req_body]

\* what a parser returns or raises
Parsed(exc, data) == [exc |-> exc, data |-> data]

\* access.parse_line.  tokens[0], tokens[1], tokens[2] of the source are
\* tokens[1], tokens[2], tokens[3] here; only a missing fourth token is
\* caught.
access_parse_line(line) ==
    LET tokens == split(line)
    IN  IF Len(tokens) < 1 THEN Parsed("IndexError", <<>>)
        ELSE IF tokens[1] \notin DOMAIN AccessStamps
        THEN Parsed("ParserError", <<>>)
        ELSE IF Len(tokens) < 3 THEN Parsed("IndexError", <<>>)
        ELSE IF tokens[3] \notin DOMAIN IntTexts
        THEN Parsed("ValueError", <<>>)
        ELSE LET req_body == IF Len(tokens) >= 4 THEN tokens[4] ELSE ""
                 url == urlparse(req_body)
             IN  Parsed("", <<astimezone_utc(AccessStamps[tokens[1]]),
                              tokens[2], IntTexts[tokens[3]], url.netloc,
                              url.path, url.params, url.query, url.fragment,
                              req_body>>)

\* "line.decode(errors='replace')": a byte that is not UTF-8 becomes U+FFFD
decode(line) == [k \in 1..Len(line) |-> IF line[k] = "\\xff" THEN "\\ufffd"
                                        ELSE line[k]]

\* error.parse_line: the first two tokens are the timestamp, the others the
\* message (joined by single spaces: the sequence of the tokens)
error_parse_line(line) ==
    LET tokens == split(line)
        stamp == SubSeq(tokens, 1, IF Len(tokens) < 2 THEN Len(tokens) ELSE 2)
    IN  IF stamp \notin DOMAIN ErrorStamps THEN Parsed("ParserError", <<>>)
        ELSE Parsed("", <<astimezone_utc(ErrorStamps[stamp]),
                          SubSeq(tokens, 3, Len(tokens))>>)

\* a file that exists, with its lines; NoFile is a path that names none
File(lines) == [exists |-> TRUE, lines |-> lines]

NoFile == [exists |-> FALSE, lines |-> <<>>]

\* pd.DataFrame(rows, columns=columns): the rows, each keyed by column name
DataFrame(rows, columns) ==
    [columns |-> columns,
     rows |-> [k \in 1..Len(rows) |->
                 [c \in {columns[j] : j \in 1..Len(columns)} |->
                    rows[k][CHOOSE j \in 1..Len(columns) : columns[j] = c]]]]

AccessColumns ==
    <<"date_time", "ip_addr", "resp_code", "netloc", "path", "params",
      "query", "fragment", "request_body">>

ErrorColumns == <<"date_time", "err_msg">>

\* in_period with the two bounds themselves kept
in_period_closed(ts, since, until) ==
    /\ ~(since # None /\ ts < since[1])
    /\ ~(until # None /\ ts > until[1])

\* the two tests of the parse_file loops: a record is kept unless
\* "(since is not None) and (data[0] <= since)" or
\* "(until is not None) and (data[0] >= until)"
in_period(ts, since, until) ==
    /\ ~(since # None /\ ts <= since[1])
    /\ ~(until # None /\ ts >= until[1])

\* the loop of access.parse_file over the lines not yet read, rows being the
\* records kept so far; an exception of parse_line ends it
RECURSIVE access_parse_lines(_, _, _, _)
access_parse_lines(lines, since, until, rows) ==
    IF lines = <<>> THEN Parsed("", rows)
    ELSE LET p == access_parse_line(Head(lines))
         IN  IF p.exc # "" THEN Parsed(p.exc, <<>>)
             ELSE access_parse_lines(Tail(lines), since, until,
                      IF in_period(p.data[1], since, until)
                      THEN Append(rows, p.data) ELSE rows)

\* access.parse_file: the DataFrame of the records kept, or the exception
access_parse_file(f, since, until) ==
    IF ~f.exists THEN Parsed("FileNotFoundError", <<>>)
    ELSE LET r == access_parse_lines(f.lines, since, until, <<>>)
         IN  IF r.exc # "" THEN r
             ELSE Parsed("", DataFrame(r.data, AccessColumns))

\* the loop of error.parse_file
RECURSIVE error_parse_lines(_, _, _, _)
error_parse_lines(lines, since, until, rows) ==
    IF lines = <<>> THEN Parsed("", rows)
    ELSE LET p == error_parse_line(decode(Head(lines)))
         IN  IF p.exc # "" THEN Parsed(p.exc, <<>>)
             ELSE error_parse_lines(Tail(lines), since, until,
                      IF in_period(p.data[1], since, until)
                      THEN Append(rows, p.data) ELSE rows)

\* error.parse_file
error_parse_file(f, since, until) ==
    IF ~f.exists THEN Parsed("FileNotFoundError", <<>>)
    ELSE LET r == error_parse_lines(f.lines, since, until, <<>>)
         IN  IF r.exc # "" THEN r
             ELSE Parsed("", DataFrame(r.data, ErrorColumns))

(* --------------------------- inputs of SpecLog ------------------------- *)

\* an access-log line with the four tokens given
AccessLine(time, ip, code, url) ==
    <<time, " ", ip, " ", code, " ", url, "\n">>

\* well-formed access-log lines: several codes, paths, addresses and hours,
\* one with a UTC offset, one without a request
AccessLines ==
    {AccessLine("2022-01-01T01:00Z", "ip1", "20", "gemini://h/about"),
     AccessLine("2022-01-01T02:00Z", "ip2", "20", "gemini://h/"),
     AccessLine("2022-01-01T02:00Z", "ip2", "20",
                "gemini://h/gemlog/posts/2022-a.gmi"),
     AccessLine("2022-01-01T03:00+01:00", "ip1", "20",
                "gemini://h/gemlog/posts/2021-b.gmi"),
     AccessLine("2022-01-01T02:00Z", "ip3", "20",
                "gemini://h/gemlog/posts/atom.xml"),
     AccessLine("2022-01-01T03:00Z", "ip1", "20", "gemini://h/remini/x"),
     <<"2022-01-01T03:00Z", " ", "ip2", " ", "51", "\n">>}

\* the lines the file parser is tried on: one for each hour, one of them
\* with a UTC offset, one without a request
TimedLines ==
    {AccessLine("2022-01-01T01:00Z", "ip1", "20", "gemini://h/about"),
     AccessLine("2022-01-01T02:00Z", "ip2", "20", "gemini://h/"),
     AccessLine("2022-01-01T03:00+01:00", "ip1", "20",
                "gemini://h/gemlog/posts/2021-b.gmi"),
     <<"2022-01-01T03:00Z", " ", "ip2", " ", "51", "\n">>}

\* malformed access-log lines: blank, two tokens, a response code that is
\* not an integer
MalformedLines ==
    {<<"\n">>,
     <<"2022-01-01T02:00Z", " ", "ip1", "\n">>,
     AccessLine("2022-01-01T02:00Z", "ip1", "OK", "gemini://h/about")}

\* error-log lines: a date, a time and a message
ErrorLines ==
    {<<"2022/01/01", " ", "01:00:00", " ", "open", " ", "failed", "\n">>,
     <<"2022/01/01", " ", "02:00:00", " ", "bad", "\t", "\\xff", "\n">>,
     <<"2022/01/01", " ", "03:00:00", "\n">>,
     <<"2022/01/01", "\n">>,
     <<"\n">>}

\* the files of at most n lines over a set of lines
Files(lines, n) == {File(l) : l \in UNION {[1..k -> lines] : k \in 0..n}}

\* the period bounds, in hours UTC
Sinces == {None, Some(1), Some(2)}

Untils == {None, Some(2), Some(3)}

(* --------------------------- actions of SpecLog ------------------------ *)

\* a parser or the report is called, with its arguments, and runs to its end
LogCall(c, r) ==
    /\ pc[1] = "idle"
    /\ pc' = [pc EXCEPT ![1] = "done"]
    /\ call' = [call EXCEPT ![1] = c]
    /\ ret' = [ret EXCEPT ![1] = Ret(r.exc, r.data)]
    /\ UNCHANGED <<table, durable, lock, cursor, hist, start, ncalls, nadded>>

AccessParseFile ==
    /\ pc[1] = "idle"
    /\ \E f \in Files(TimedLines \cup MalformedLines, MaxLogLines),
          since \in Sinces, until \in Untils :
        LogCall(Call("access.parse_file",
                     [file |-> f, since |-> since, until |-> until]),
                access_parse_file(f, since, until))

ErrorParseFile ==
    /\ pc[1] = "idle"
    /\ \E f \in Files(ErrorLines, MaxLogLines),
          since \in Sinces, until \in Untils :
        LogCall(Call("error.parse_file",
                     [file |-> f, since |-> since, until |-> until]),
                error_parse_file(f, since, until))

\* the result is handed back
LogReturn == Return(1)

NextLog ==
    \/ AccessParseFile
    \/ ErrorParseFile
    \/ LogReturn

SpecLog == Init /\ [][NextLog]_vars

(* ============================ the report =============================== *)

\* the description of each response code
RESP_CODE_DESC ==
    (10 :> "INPUT") @@ (11 :> "SENSITIVE INPUT") @@ (20 :> "SUCCESS") @@
    (30 :> "REDIRECT - TEMPORARY") @@ (31 :> "REDIRECT - PERMANENT") @@
    (40 :> "TEMPORARY FAILURE") @@ (41 :> "SERVER UNAVAILABLE") @@
    (42 :> "CGI ERROR") @@ (43 :> "PROXY ERROR") @@ (44 :> "SLOW DOWN") @@
    (50 :> "PERMANENT FAILURE") @@ (51 :> "NOT FOUND") @@ (52 :> "GONE") @@
    (53 :> "PROXY REQUEST REFUSED") @@ (59 :> "BAD REQUEST") @@
    (60 :> "CLIENT CERTIFICATE REQUIRED") @@
    (61 :> "CERTIFICATE NOT AUTHORISED") @@ (62 :> "CERTIFICATE NOT VALID")

\* "RESP_CODE_DESC.get(r, '[NO DESCRIPTION]')"
resp_code_desc(r) ==
    IF r \in DOMAIN RESP_CODE_DESC THEN RESP_CODE_DESC[r]
    ELSE "[NO DESCRIPTION]"

\* str.startswith on texts cut into pieces
startswith(text, prefix) ==
    Len(prefix) <= Len(text) /\ SubSeq(text, 1, Len(prefix)) = prefix

\* "df[col].str.startswith(prefix)": one truth value for each row
col_startswith(df, col, prefix) ==
    [k \in 1..Len(df.rows) |-> startswith(df.rows[k][col], prefix)]

\* "df[col] == v": one truth value for each row
col_equals(df, col, v) == [k \in 1..Len(df.rows) |-> df.rows[k][col] = v]

\* "~mask"
Not(mask) == [k \in DOMAIN mask |-> ~mask[k]]

\* df[mask]: the rows at which the mask is true, the columns as they are
Where(df, mask) ==
    LET at == SelectSeq([k \in 1..Len(df.rows) |-> k], LAMBDA k : mask[k])
    IN  [df EXCEPT !.rows = [j \in 1..Len(at) |-> df.rows[at[j]]]]

\* DataFrame.size: the number of cells, rows times columns
size(df) == Len(df.rows) * Len(df.columns)

\* total_count with DataFrame.size in place of shape[0]
total_count_size(df) == Len(df.rows) * Len(df.columns)

\* access.total_count: df.shape[0], the number of rows
total_count(df) == Len(df.rows)

\* df.groupby(col).size(): for each value of the column, the number of rows
\* that have it
groupby_size(df, col) ==
    [k \in {df.rows[i][col] : i \in 1..Len(df.rows)} |->
        Cardinality({i \in 1..Len(df.rows) : df.rows[i][col] = k})]

\* sort_values with its default, ascending order
sort_values_ascending(freq) ==
    {s \in [1..Cardinality(DOMAIN freq) -> DOMAIN freq] :
        /\ \A i, j \in DOMAIN s : i # j => s[i] # s[j]
        /\ \A i, j \in DOMAIN s : i < j => freq[s[i]] <= freq[s[j]]}

\* Series.sort_values(ascending=False): the keys by descending count.  The
\* sort is the default quicksort, which is not stable, so the order of keys
\* with equal counts is any order: each outcome is one sequence of the set.
sort_values(freq) ==
    {s \in [1..Cardinality(DOMAIN freq) -> DOMAIN freq] :
        /\ \A i, j \in DOMAIN s : i # j => s[i] # s[j]
        /\ \A i, j \in DOMAIN s : i < j => freq[s[i]] >= freq[s[j]]}

\* a Series: its index in order, and the value at each key
Series(index, value) == [index |-> index, value |-> value]

\* access.path_freq: the Series it can return
path_freq(df) ==
    {Series(s, groupby_size(df, "path")) :
        s \in sort_values(groupby_size(df, "path"))}

\* access.ip_addr_freq
ip_addr_freq(df) ==
    {Series(s, groupby_size(df, "ip_addr")) :
        s \in sort_values(groupby_size(df, "ip_addr"))}

\* access.resp_code_freq, called by generate_report: the number of requests
\* for each response code observed, by descending count
resp_code_freq(df) ==
    {Series(s, groupby_size(df, "resp_code")) :
        s \in sort_values(groupby_size(df, "resp_code"))}

\* access.unique_ip_count: "ip_addr_freq(df).size", the length of the Series
unique_ip_count(df) == Len((CHOOSE f \in ip_addr_freq(df) : TRUE).index)

\* "((resp_codes / total) * 100).round(2)" for one count, in hundredths of a
\* percent, rounded half to even
resp_codes_pct(count, total) ==
    LET q == (count * 10000) \div total
        r == (count * 10000) % total
    IN  IF 2 * r > total THEN q + 1
        ELSE IF 2 * r < total THEN q
        ELSE IF q % 2 = 0 THEN q ELSE q + 1

\* "index[:3]"
Top3(index) == SubSeq(index, 1, IF Len(index) < 3 THEN Len(index) ELSE 3)

\* datetime.isoformat() of a period bound
isoformat(t) == <<"2022-01-01T", t, ":00:00+00:00">>

\* the title and period lines (report.py 32-41)
ReportHead(capsule_name, report_time, since, until) ==
    << <<"# Report for ", capsule_name, " at ", report_time>> >>
    \o (IF since # None /\ until # None
        THEN << <<"Period from ", isoformat(since[1]), " to ",
                  isoformat(until[1]), ".">> >>
        ELSE IF since # None
        THEN << <<"Period from ", isoformat(since[1]), " to present.">> >>
        ELSE IF until # None
        THEN << <<"Period ending ", isoformat(until[1]), ".">> >>
        ELSE <<>>)
    \o << <<"">> >>

\* the lines of the traffic section (report.py 48-62)
ReportTraffic(access_df, error_df, resp_codes) ==
    LET total == total_count(access_df)
    IN  << <<"## Capsule traffic">>, <<"">>,
           <<"Total requests: ", total>>,
           <<"Unique IPs: ", unique_ip_count(access_df)>>,
           <<"Errors logged: ", size(error_df)>>,
           <<"">>,
           <<"Response codes:">> >>
        \o [k \in 1..Len(resp_codes.index) |->
              LET r == resp_codes.index[k]
              IN  <<"* ", r, " (", resp_code_desc(r), "): ",
                    resp_codes.value[r], " (",
                    resp_codes_pct(resp_codes.value[r], total), "%)">>]

\* the lines of the popular pages and of the gemlog (report.py 64-89)
ReportPages(success_df, gemlog_posts_freq, others_freq) ==
    LET is_gemlog == col_startswith(success_df, "path", <<"/gemlog">>)
        gemlog_df == Where(success_df, is_gemlog)
        gemlog_atom_hits ==
            size(Where(gemlog_df,
                       col_equals(gemlog_df, "path",
                                  <<"/gemlog", "/posts/", "atom.xml">>)))
    IN  << <<"">>, <<"Most popular page (excl. gemlog):">> >>
        \o [k \in 1..Len(Top3(others_freq.index)) |->
              <<"* ", others_freq.index[k], " (",
                others_freq.value[others_freq.index[k]], " hits)">>]
        \o << <<"">>, <<"### Gemlog">>, <<"">>,
              <<"Total visits to gemlog: ", size(gemlog_df)>>,
              <<"Unique IPs: ", unique_ip_count(gemlog_df)>>,
              <<"Hits on atom feed: ", gemlog_atom_hits>>,
              <<"">> >>
        \o (IF size(gemlog_df) # 0
            THEN << <<"Most popular posts:">> >>
                 \o [k \in 1..Len(Top3(gemlog_posts_freq.index)) |->
                       <<"* ", gemlog_posts_freq.index[k], " (",
                         gemlog_posts_freq.value[gemlog_posts_freq.index[k]],
                         " hits)">>]
                 \o << <<"">> >>
            ELSE <<>>)

\* the Messages section (report.py 91-96): msg_db is None or the table of
\* the store it names
ReportMessages(msg_db) ==
    IF msg_db # None
    THEN << <<"## Messages">>, <<"">>,
            <<"Messages received: ", count_messages(NoFilter, msg_db[1]).val,
              " (", count_messages(Unread, msg_db[1]).val, " unread)">> >>
    ELSE <<>>

\* generate_report: the results it can have, each the exception raised or
\* the list of lines.  report_time is the text of datetime.utcnow(); the
\* second sort of the posts (report.py 87) repeats the computation of
\* gemlog_posts_freq and gives the same order.
generate_report(access_log, error_log, capsule_name, msg_db, since, until, report_time) ==
    LET parsed == access_parse_file(access_log, since, until)
        access_df ==
            Where(parsed.data,
                  Not(col_startswith(parsed.data, "path", <<"/remini">>)))
        success_df == Where(access_df, col_equals(access_df, "resp_code", 20))
        errors == error_parse_file(error_log, since, until)
        is_gemlog == col_startswith(success_df, "path", <<"/gemlog">>)
        gemlog_df == Where(success_df, is_gemlog)
        gemlog_posts_df ==
            Where(gemlog_df,
                  col_startswith(gemlog_df, "path",
                                 <<"/gemlog", "/posts/", "202">>))
        others_df == Where(success_df, Not(is_gemlog))
    IN  IF parsed.exc # "" THEN {Parsed(parsed.exc, <<>>)}
        ELSE IF errors.exc # "" THEN {Parsed(errors.exc, <<>>)}
        ELSE {Parsed("",
                ReportHead(capsule_name, report_time, since, until)
                \o ReportTraffic(access_df, errors.data, resp_codes)
                \o ReportPages(success_df, gemlog_posts_freq, others_freq)
                \o ReportMessages(msg_db)) :
                  resp_codes \in resp_code_freq(access_df),
                  gemlog_posts_freq \in path_freq(gemlog_posts_df),
                  others_freq \in path_freq(others_df)}

(* -------------------------- inputs of SpecReport ----------------------- *)

\* the row the store holds for message m
StoredRow(m) == InsertedRow(ADD_MESSAGE, add_message_stmt(m).params)

\* the message stores a report is made with: none, or one with an unread
\* and a read message
ReportStores ==
    {None,
     Some(<<StoredRow(Msg("/s", "p", "", "a", DateTime(1, 0), "m1")),
            [StoredRow(Msg("/s", "", "h", "b", DateTime(2, 5), ""))
                EXCEPT !.read = 1]>>)}

\* the error logs: not available, empty, or with two records
ReportErrorLogs ==
    {NoFile, File(<<>>),
     File(<< <<"2022/01/01", " ", "02:00:00", " ", "open", " ", "failed", "\n">>,
             <<"2022/01/01", " ", "03:00:00", "\n">> >>)}

\* the periods: unbounded, or since 00:00, to now or until 04:00
ReportPeriods ==
    {<<None, None>>, <<Some(0), None>>, <<Some(0), Some(4)>>}

(* -------------------------- actions of SpecReport ---------------------- *)

GenerateReport ==
    /\ pc[1] = "idle"
    /\ \E access_log \in Files(AccessLines, MaxLogLines),
          error_log \in ReportErrorLogs, msg_db \in ReportStores,
          period \in ReportPeriods :
        \E r \in generate_report(access_log, error_log, "capsule", msg_db,
                                 period[1], period[2],
                                 "Monday 02 November 2026") :
            LogCall(Call("generate_report",
                         [access_log |-> access_log, error_log |-> error_log,
                          capsule_name |-> "capsule", msg_db |-> msg_db,
                          since |-> period[1], until |-> period[2]]),
                    r)

(* ------------------------------ print_report --------------------------- *)

\* the database files that exist, each with the rows of its "messages"
DbFiles ==
    [p \in {"var/msgs.db"} |->
        <<StoredRow(Msg("/s", "p", "", "a", DateTime(1, 0), "m1")),
          [StoredRow(Msg("/s", "", "h", "b", DateTime(2, 5), ""))
              EXCEPT !.read = 1]>>]

\* os.path.dirname of the paths and names in use: the text before the last
\* "/", empty when there is none
dirname(fpath) ==
    CASE fpath = "var/msgs.db" -> "var"
      [] fpath = "caps/ule" -> "caps"
      [] OTHER -> ""

\* DAO(db_fpath): os.makedirs("") raises when the path names no directory;
\* otherwise the file is opened, or created with an empty "messages" table
DAO(db_fpath) ==
    IF dirname(db_fpath) = ""
    THEN Parsed("FileNotFoundError", <<>>)
    ELSE IF db_fpath \in DOMAIN DbFiles
         THEN Parsed("", DbFiles[db_fpath])
         ELSE Parsed("", <<>>)

\* the text an f-string gives for a value that is None or a string
format(v) == IF v = None THEN "None" ELSE v[1]

\* print_report: generate_report is called with msg_db third and
\* capsule_name fourth, so msg_db arrives as its capsule_name and
\* capsule_name as its msg_db: the title formats the former, and the latter,
\* when not empty, is the path the DAO is opened on after the logs were
\* read.  The result is the exception raised or the lines printed.
print_report(access_log, error_log, msg_db, capsule_name, since, until, report_time) ==
    LET dao == IF capsule_name = "" THEN Parsed("", <<>>) ELSE DAO(capsule_name)
        store == IF capsule_name # "" /\ dao.exc = "" THEN Some(dao.data) ELSE None
    IN  {IF r.exc = "" /\ dao.exc # "" THEN Parsed(dao.exc, <<>>) ELSE r :
            r \in generate_report(access_log, error_log, format(msg_db), store,
                                  since, until, report_time)}

\* the names of a capsule: plain, with a "/" in it, or empty
CapsuleNames == {"capsule", "caps/ule", ""}

\* the message database given: none, or the path of the existing one
MsgDbPaths == {None, Some("var/msgs.db")}

PrintReport ==
    /\ pc[1] = "idle"
    /\ \E access_log \in Files(AccessLines, MaxLogLines),
          error_log \in ReportErrorLogs, msg_db \in MsgDbPaths,
          capsule_name \in CapsuleNames, period \in ReportPeriods :
        \E r \in print_report(access_log, error_log, msg_db, capsule_name,
                              period[1], period[2], "Monday 02 November 2026") :
            LogCall(Call("print_report",
                         [access_log |-> access_log, error_log |-> error_log,
                          msg_db |-> msg_db, capsule_name |-> capsule_name,
                          since |-> period[1], until |-> period[2]]),
                    r)

(* --------------------------- counting by codes -------------------------- *)

\* access.total_by_resp_code: the number of rows whose resp_code is the code
total_by_resp_code(df, resp_code) ==
    total_count(Where(df, col_equals(df, "resp_code", resp_code)))

\* "df[col] in values" for a list of values: membership in a list compares
\* each element with the column by "==" and takes the truth value of the
\* outcome, which is a column of booleans whatever the number of rows;
\* pandas refuses the truth value of a column (ValueError).  With no
\* element nothing is compared and the answer is False.
column_in(df, col, values) ==
    IF values = <<>> THEN Parsed("", FALSE) ELSE Parsed("ValueError", FALSE)

\* df[key] for a key that is one boolean: the key is looked up as a column
\* label, and no column has it (KeyError)
getitem_bool(df, key) == Parsed("KeyError", df)

\* access.total_by_resp_codes: df[df['resp_code'] in resp_codes].shape[0]
total_by_resp_codes(df, resp_codes) ==
    LET key == column_in(df, "resp_code", resp_codes)
        part == getitem_bool(df, key.data)
    IN  IF key.exc # "" THEN Parsed(key.exc, 0)
        ELSE IF part.exc # "" THEN Parsed(part.exc, 0)
        ELSE Parsed("", total_count(part.data))

\* the lists of distinct codes asked for
RespCodeLists == {<<>>, <<20>>, <<51>>, <<20, 51>>, <<59, 20>>}

TotalByRespCodes ==
    /\ pc[1] = "idle"
    /\ \E access_log \in Files(AccessLines, MaxLogLines),
          resp_codes \in RespCodeLists :
        \E parsed \in {access_parse_file(access_log, None, None)} :
            /\ parsed.exc = ""
            /\ LogCall(Call("total_by_resp_codes",
                            [df |-> parsed.data, resp_codes |-> resp_codes]),
                       total_by_resp_codes(parsed.data, resp_codes))

\* the report is handed back
ReportReturn == Return(1)

NextReport ==
    \/ GenerateReport
    \/ PrintReport
    \/ TotalByRespCodes
    \/ ReportReturn

SpecReport == Init /\ [][NextReport]_vars

(* ======================= claims about Spec ============================= *)

\* the threads that have executed a SELECT and not yet fetched its result
BetweenExecuteAndFetch == {t \in Threads : pc[t] \in {"fetch_acquire", "fetch"}}

\* C1: with several callers sharing one store, between a caller's execute
\* step and the same caller's fetch step no other caller's statement is
\* executed on the shared cursor (the lock is held from execute through
\* fetch): the statement on the cursor is still the caller's own.
C1_ExecuteFetchUnderOneLock ==
    \A t \in BetweenExecuteAndFetch : cursor.owner = t

\* what a query or count with call c returns on table tab, alone
Alone(c, tab) ==
    IF c.op = "get_messages" THEN get_messages(c.args, tab)
    ELSE count_messages(c.args, tab)

\* the values the table has had between the start of t's call and now
During(t) == {hist[i] : i \in start[t]..Len(hist)}

\* C2: store operations are linearizable: every query and every count that
\* has completed returned what its own filters select in a value the table
\* had at some instant between the call's start and its return.
C2_Linearizable ==
    \A t \in Threads :
        (pc[t] = "done" /\ Fetches(call[t]))
        => /\ ret[t].exc = ""
           /\ \E tab \in During(t) : ret[t].val = Alone(call[t], tab).val

\* the add_message calls that have executed their INSERT and not committed
Uncommitted ==
    {t \in Threads : call[t].op = "add_message" /\ pc[t] = "commit"}

\* C3: concurrent inserts lose no write: the table holds one row for every
\* add_message that has completed or has executed its INSERT, whatever the
\* interleaving of the execute and commit steps; once every caller has
\* returned the rows are committed, and an unfiltered query returns each of
\* them once under its own identifier 1..M.
C3_NoLostInsert ==
    /\ Len(table) = nadded + Cardinality(Uncommitted)
    /\ (\A t \in Threads : pc[t] = "idle")
       => /\ durable = table
          /\ LET rows == get_messages(NoFilter, table).val
             IN  /\ Len(rows) = nadded
                 /\ \A k \in 1..Len(rows) : rows[k][1] = k

\* C3 witness: two callers inserted concurrently (both INSERTs executed
\* before either commit) and both rows are in the table.
C3_Witness ==
    /\ Cardinality(Uncommitted) = 2
    /\ Len(table) = 2

\* thread t executes the UPDATE of its mark_read call in this step
Marking(t) ==
    call[t].op = "mark_read" /\ pc[t] = "execute" /\ pc'[t] # "execute"

\* thread t executes the INSERT of its add_message call in this step
Inserting(t) ==
    call[t].op = "add_message" /\ pc[t] = "execute" /\ pc'[t] # "execute"

\* a row without its read flag
Fields(row) == [row EXCEPT !["read"] = 0]

\* C8: in every step of every interleaving no stored row is removed and
\* every row keeps its identifier and its six fields; a new row appears only
\* by an insert and has read = 0; a read flag that is 1 stays 1; and a read
\* flag changes only in the step in which a mark_read executes its UPDATE.
C8_RowLifecycle ==
    [][/\ Len(table') >= Len(table)
       /\ \A i \in 1..Len(table) :
            /\ Fields(table'[i]) = Fields(table[i])
            /\ table[i].read = 1 => table'[i].read = 1
            /\ table'[i].read # table[i].read => \E t \in Threads : Marking(t)
       /\ \A i \in (Len(table) + 1)..Len(table') :
            /\ table'[i].read = 0
            /\ i = Len(table) + 1
            /\ \E t \in Threads : Inserting(t)]_vars

\* C8 witness: two rows were inserted and one of them was marked read.
C8_Witness ==
    /\ Len(table) = 2
    /\ table[1].read = 1
    /\ table[2].read = 0

\* the stored rows named by the identifier list of t's mark_read
Named(t) ==
    {call[t].args[k] : k \in 1..Len(call[t].args)} \cap (1..Len(table))

\* the rows whose read flag this step changes
Changed == {i \in 1..Len(table) : table'[i].read # table[i].read}

Returned(op) == pc[1] = "done" /\ call[1].op = op

\* the list of every identifier in the table, 1..N
AllIds == [k \in 1..Len(table) |-> k]

\* C4: after N inserts, mark_read with the full set of their identifiers
\* succeeds (the storage permitting) and count(read=0) is then 0.
C4_MarkAllLeavesNoneUnread ==
    (Returned("mark_read") /\ call[1].args = AllIds /\ ret[1].exc # IOError)
    => /\ ret[1].exc = ""
       /\ count_messages(Unread, table).val = 0

\* C5: for every store state and every combination of filters, each omitted
\* or given, count(filters) is the number of rows query(filters) returns.
C5_CountIsQueryLength ==
    /\ Returned("count_messages")
       => /\ ret[1].exc = ""
          /\ ret[1].val = Len(get_messages(call[1].args, table).val)
    /\ Returned("get_messages")
       => /\ ret[1].exc = ""
          /\ Len(ret[1].val) = count_messages(call[1].args, table).val

\* C5 witness: a count with all seven filters given returned 1 of 2 rows.
C5_Witness ==
    /\ Returned("count_messages")
    /\ \A k \in DOMAIN call[1].args : call[1].args[k] # None
    /\ Len(table) = 2
    /\ ret[1].val = 1

\* the datetime a stored time text stands for (datetime.fromisoformat)
ParseTime(text) == DateTime(text[1], IF Len(text) > 1 THEN text[2] ELSE 0)

\* the time of stored row i, as the datetime that was inserted
TimeOf(i) == ParseTime(table[i].time)

\* the row identifiers in a list of result rows
RowIds(rows) == {rows[k][1] : k \in 1..Len(rows)}

OnlySince(f) == f.since # None /\ [f EXCEPT !.since = None] = NoFilter

OnlyUntil(f) == f.until # None /\ [f EXCEPT !.until = None] = NoFilter

OnlyRange(f) ==
    /\ f.since # None
    /\ f.until # None
    /\ [f EXCEPT !.since = None, !.until = None] = NoFilter

\* C6: a query with only since=t returns exactly the messages whose time is
\* strictly greater than t, and one with only until=t exactly those whose
\* time is strictly less than t (so never a message with time = t).
C6_OneSidedBoundsExclusive ==
    Returned("get_messages")
    => LET f == call[1].args
       IN  /\ OnlySince(f)
              => RowIds(ret[1].val) =
                    {i \in 1..Len(table) : DtLess(f.since[1], TimeOf(i))}
           /\ OnlyUntil(f)
              => RowIds(ret[1].val) =
                    {i \in 1..Len(table) : DtLess(TimeOf(i), f.until[1])}

\* C7: a query with since=t1 and until=t2, t1 < t2, returns exactly the
\* messages with t1 <= time <= t2, both bounds included.
C7_TwoSidedRangeInclusive ==
    Returned("get_messages")
    => LET f == call[1].args
       IN  (OnlyRange(f) /\ DtLess(f.since[1], f.until[1]))
           => RowIds(ret[1].val) =
                 {i \in 1..Len(table) : /\ ~DtLess(TimeOf(i), f.since[1])
                                        /\ ~DtLess(f.until[1], TimeOf(i))}

EqColumns == {"script_path", "path_info", "tls_client_hash", "ip_addr", "read"}

\* filter f with only its since/until range kept
RangeOf(f) == [NoFilter EXCEPT !.since = f.since, !.until = f.until]

\* the rows that satisfy every filter given in f: the value given for each
\* equality filter, and the since/until range taken as one filter
Satisfying(f) ==
    {i \in 1..Len(table) :
        /\ \A col \in EqColumns : f[col] # None => table[i][col] = f[col][1]
        /\ i \in RowIds(get_messages(RangeOf(f), table).val)}

\* C11: an omitted filter restricts nothing and the filters given are
\* combined conjunctively: a query returns, once each, exactly the rows that
\* satisfy every filter given, and a count is their number; a filter given
\* as the empty string or as read = 0 is applied as an equality test.
C11_FiltersConjunctive ==
    /\ Returned("get_messages")
       => /\ RowIds(ret[1].val) = Satisfying(call[1].args)
          /\ Len(ret[1].val) = Cardinality(Satisfying(call[1].args))
    /\ Returned("count_messages")
       => ret[1].val = Cardinality(Satisfying(call[1].args))

\* C11 witness: a query with tls_client_hash = "" and read = 0 given, and
\* other filters omitted, returned one of the two stored rows.
C11_Witness ==
    /\ Returned("get_messages")
    /\ call[1].args.tls_client_hash = Some("")
    /\ call[1].args.read = Some(0)
    /\ call[1].args.since = None
    /\ Len(table) = 2
    /\ Len(ret[1].val) = 1

\* this step is a whole mark_read call of the single caller
MarkingRead == pc[1] = "idle" /\ pc'[1] = "done" /\ call'[1].op = "mark_read"

\* the identifiers given to the mark_read of this step
MarkedIds == {call'[1].args[k] : k \in 1..Len(call'[1].args)}

\* C19: mark_read(ids) changes nothing but the read flag of rows whose
\* identifier is in ids: no row is added or removed, every row keeps its six
\* other fields, every row not in ids is as it was; and mark_read of an
\* empty list changes no row and raises no error.
C19_MarkReadFrame ==
    [][MarkingRead =>
        /\ Len(table') = Len(table)
        /\ \A i \in 1..Len(table) :
              /\ Fields(table'[i]) = Fields(table[i])
              /\ i \notin MarkedIds => table'[i] = table[i]
        /\ call'[1].args = <<>> => (table' = table /\ ret'[1].exc = "")]_vars

\* C19 witness: mark_read([2]) on two unread rows returned, and row 2 is
\* read while row 1 is not.
C19_Witness ==
    /\ Returned("mark_read")
    /\ call[1].args = <<2>>
    /\ ret[1].exc = ""
    /\ Len(table) = 2
    /\ table[1].read = 0
    /\ table[2].read = 1

(* ==================== claims about SpecHandler ========================= *)

\* this step is the handling of one request
Handling == pc[1] = "idle" /\ pc'[1] = "done" /\ call'[1].op = "produce"

\* the row a request stores: its fields, the text of its time, read = 0
RequestRow(a, text) ==
    [script_path |-> a.env.SCRIPT_PATH[1], path_info |-> a.env.PATH_INFO[1],
     tls_client_hash |-> IF a.env.TLS_CLIENT_HASH = None THEN ""
                         ELSE a.env.TLS_CLIENT_HASH[1],
     ip_addr |-> a.env.REMOTE_ADDR[1], time |-> adapt_datetime(a.now),
     message |-> text, read |-> 0]

\* C12: the handler, on a request with non-empty message text, makes exactly
\* one insert (of that text, decoded) and answers with the thank-you; on
\* empty text it answers with the input prompt and leaves the store as it
\* was; when the insert fails it answers 40 with one fixed generic message,
\* whatever the error was, and the store is as it was: the insert is not
\* tried again.
C12_HandlerOutcomes ==
    [][Handling =>
        LET a == call'[1].args
            raw == a.env.QUERY_STRING[1]
            text == IF raw = "a%20b" THEN "a b" ELSE raw
        IN  /\ (raw # "" /\ a.io)
               => /\ table' = Append(table, RequestRow(a, text))
                  /\ durable' = table'
                  /\ ret'[1].val = <<"20", " ", "text/plain", "\r\n",
                                     "Thank you for your message!", "\n">>
            /\ raw = ""
               => /\ table' = table
                  /\ durable' = durable
                  /\ ret'[1].val = <<"10", " ", "Please enter your message.",
                                     "\r\n">>
            /\ (raw # "" /\ ~a.io)
               => /\ table' = table
                  /\ durable' = durable
                  /\ ret'[1].val =
                        <<"40", " ",
                          "Something went wrong. Error has been logged.",
                          "\r\n">>]_vars

\* C12 witness: after one stored message, a request whose insert failed was
\* answered with the temporary failure, and the store still holds one row.
C12_Witness ==
    /\ Returned("produce")
    /\ ~call[1].args.io
    /\ ret[1].exc = IOError
    /\ ret[1].val[1] = "40"
    /\ Len(table) = 1
    /\ durable = table

(* ====================== claims about SpecPrint ========================= *)

\* this step is the mark_read of a print_messages run with mark_read enabled
PrintMarking ==
    /\ pc[1] = "printed"
    /\ pc'[1] = "done"
    /\ call[1].op = "print_messages"
    /\ call[1].args.mark_read

\* the identifiers of the messages the command printed
PrintedIds == RowIds(ret[1].val.results)

\* C20: print_messages with mark_read enabled: when it returns (the storage
\* permitting) every message it printed, be they none, one or several, has
\* read = 1, and no message it did not print has changed, whatever other
\* callers inserted between its query and its mark_read.
C20_PrintedAreMarked ==
    [][(PrintMarking /\ ret'[1].exc # IOError) =>
        /\ ret'[1].exc = ""
        /\ \A i \in PrintedIds : table'[i].read = 1
        /\ Len(table') = Len(table)
        /\ \A i \in (1..Len(table)) \ PrintedIds : table'[i] = table[i]]_vars

(* ======================= claims about SpecLog ========================== *)

\* a line with fewer than three tokens, or whose third token is no integer
Malformed(line) ==
    \/ Len(split(line)) < 3
    \/ split(line)[3] \notin DOMAIN IntTexts

\* C13: an access-log line with fewer than 3 tokens or a non-integer
\* response code makes the line parser fail with ParseError, and the file
\* parser leaves such lines out: it returns the records of the well-formed
\* lines, each once, as if the malformed lines were not in the file.
C13_MalformedLinesSkipped ==
    Returned("access.parse_file")
    => LET a == call[1].args
           good == SelectSeq(a.file.lines, LAMBDA l : ~Malformed(l))
       IN  /\ \A k \in 1..Len(a.file.lines) :
                Malformed(a.file.lines[k])
                => access_parse_line(a.file.lines[k]).exc = "ParseError"
           /\ ret[1].exc = ""
           /\ ret[1].val = access_parse_file(File(good), a.since, a.until).data

\* the timestamp of a line of the log that call c parses
StampOf(c, line) ==
    IF c.op = "access.parse_file" THEN access_parse_line(line).data[1]
    ELSE error_parse_line(decode(line)).data[1]

\* the positions of the lines of c's file whose timestamp is strictly after
\* since and strictly before until, in file order
StrictlyInside(c) ==
    SelectSeq([k \in 1..Len(c.args.file.lines) |-> k],
              LAMBDA k :
                LET ts == StampOf(c, c.args.file.lines[k])
                IN  /\ (c.args.since = None \/ ts > c.args.since[1])
                    /\ (c.args.until = None \/ ts < c.args.until[1]))

\* C18: the file-level parse of either log, when it returns, returns in file
\* order exactly the records whose timestamp ts satisfies (since absent or
\* ts > since) and (until absent or ts < until): a record with ts = since or
\* ts = until is dropped.
C18_PeriodBoundsExclusive ==
    ((Returned("access.parse_file") \/ Returned("error.parse_file"))
        /\ ret[1].exc = "")
    => LET c == call[1]
           kept == StrictlyInside(c)
           rows == ret[1].val.rows
       IN  /\ Len(rows) = Len(kept)
           /\ \A j \in 1..Len(kept) :
                /\ rows[j].date_time = StampOf(c, c.args.file.lines[kept[j]])
                /\ IF c.op = "access.parse_file"
                   THEN rows[j].request_body =
                          access_parse_line(c.args.file.lines[kept[j]]).data[9]
                   ELSE rows[j].err_msg =
                          error_parse_line(decode(c.args.file.lines[kept[j]])).data[2]

\* C18 witness: an access log with records at 01:00, 02:00 (written as
\* 03:00+01:00) and 03:00 UTC was parsed with since = 01:00 and until =
\* 03:00, and only the record at 02:00 was returned.
C18_Witness ==
    /\ Returned("access.parse_file")
    /\ ret[1].exc = ""
    /\ call[1].args.since = Some(1)
    /\ call[1].args.until = Some(3)
    /\ Len(call[1].args.file.lines) = 3
    /\ {StampOf(call[1], call[1].args.file.lines[k]) : k \in 1..3} = {1, 2, 3}
    /\ Len(ret[1].val.rows) = 1
    /\ ret[1].val.rows[1].date_time = 2
    /\ ret[1].val.rows[1].path = <<"/gemlog", "/posts/", "202", "1-b.gmi">>

(* ====================== claims about SpecReport ======================== *)

\* a report has been generated (no exception was raised)
Reported == Returned("generate_report") /\ ret[1].exc = ""

\* the access records the report is about: those of the access log, in file
\* order, that are inside the period and whose path is not excluded
ReportRecords ==
    LET a == call[1].args
        all == [k \in 1..Len(a.access_log.lines) |->
                   access_parse_line(a.access_log.lines[k]).data]
    IN  SelectSeq(all, LAMBDA d :
            /\ (a.since = None \/ d[1] > a.since[1])
            /\ (a.until = None \/ d[1] < a.until[1])
            /\ ~(Len(d[5]) >= 1 /\ d[5][1] = "/remini"))

\* the error records the report is about: those of the error log inside the
\* period
ReportErrors ==
    LET a == call[1].args
        all == [k \in 1..Len(a.error_log.lines) |->
                   error_parse_line(decode(a.error_log.lines[k])).data]
    IN  SelectSeq(all, LAMBDA d :
            /\ (a.since = None \/ d[1] > a.since[1])
            /\ (a.until = None \/ d[1] < a.until[1]))

\* how many of the records have v as their field n
Matches(records, n, v) ==
    Cardinality({i \in 1..Len(records) : records[i][n] = v})

\* the code-20 records whose path is under the gemlog prefix
GemlogRecords ==
    SelectSeq(ReportRecords, LAMBDA d :
        d[3] = 20 /\ Len(d[5]) >= 1 /\ d[5][1] = "/gemlog")

\* the number printed on the line of the report that starts with label
Figure(label) ==
    LET lines == ret[1].val
    IN  lines[CHOOSE k \in 1..Len(lines) : lines[k][1] = label][2]

\* the entries of the response-code breakdown, in the order printed
CodeEntries ==
    SelectSeq(ret[1].val, LAMBDA l : Len(l) = 9 /\ l[1] = "* ")

RECURSIVE SumOf(_, _)
\* the sum of field n of the entries
SumOf(entries, n) ==
    IF entries = <<>> THEN 0
    ELSE Head(entries)[n] + SumOf(Tail(entries), n)

C15_FiguresCountRecords ==
    Reported
    => /\ Figure("Errors logged: ") = Len(ReportErrors)
       /\ Figure("Total visits to gemlog: ") = Len(GemlogRecords)
       /\ Figure("Hits on atom feed: ") =
             Matches(GemlogRecords, 5, <<"/gemlog", "/posts/", "atom.xml">>)

\* the "* path (n hits)" entries printed under the line header, in order
PathEntries(header) ==
    LET lines == ret[1].val
        at == {k \in 1..Len(lines) : lines[k] = <<header>>}
    IN  IF at = {} THEN <<>>
        ELSE LET k == CHOOSE k \in at : TRUE
                 n == CHOOSE n \in 0..(Len(lines) - k) :
                        /\ \A j \in 1..n :
                              Len(lines[k + j]) = 5 /\ lines[k + j][1] = "* "
                        /\ \/ k + n = Len(lines)
                           \/ ~(Len(lines[k + n + 1]) = 5
                                /\ lines[k + n + 1][1] = "* ")
             IN  SubSeq(lines, k + 1, k + n)

\* the code-20 records that are not under the gemlog prefix
OtherRecords ==
    SelectSeq(ReportRecords, LAMBDA d :
        d[3] = 20 /\ ~(Len(d[5]) >= 1 /\ d[5][1] = "/gemlog"))

\* the code-20 records of gemlog posts
PostRecords ==
    SelectSeq(ReportRecords, LAMBDA d :
        d[3] = 20 /\ Len(d[5]) >= 3
        /\ SubSeq(d[5], 1, 3) = <<"/gemlog", "/posts/", "202">>)

\* the position at which a record with key at field n is first met
FirstMet(records, n, key) ==
    CHOOSE i \in 1..Len(records) :
        /\ records[i][n] = key
        /\ \A j \in 1..(i - 1) : records[j][n] # key

\* entries (key at field 2, count at field c) are by descending count
Descending(entries, c) ==
    \A k, j \in 1..Len(entries) : k < j => entries[k][c] >= entries[j][c]

\* entries with equal counts are in the order their keys were first met in
\* records, where the key is field n
TiesAsMet(entries, c, records, n) ==
    \A k, j \in 1..Len(entries) :
        (k < j /\ entries[k][c] = entries[j][c])
        => FirstMet(records, n, entries[k][2])
              < FirstMet(records, n, entries[j][2])

\* the entries are the top 3 of the keys of records (field n): as many as
\* there are keys up to three, no key twice, each with its count, and no key
\* left out has a count greater than a listed one
Top3Of(entries, records, n) ==
    LET keys == {records[i][n] : i \in 1..Len(records)}
        listed == {entries[k][2] : k \in 1..Len(entries)}
        hits(key) == Matches(records, n, key)
    IN  /\ Len(entries) = IF Cardinality(keys) < 3 THEN Cardinality(keys) ELSE 3
        /\ Cardinality(listed) = Len(entries)
        /\ listed \subseteq keys
        /\ \A k \in 1..Len(entries) : entries[k][4] = hits(entries[k][2])
        /\ \A key \in keys \ listed, k \in 1..Len(entries) :
              hits(key) <= entries[k][4]

HasLine(label) == \E k \in 1..Len(ret[1].val) : ret[1].val[k][1] = label

\* C17: a report asked for with an access log and no error log available
\* is generated and has the traffic section (Total requests, Unique IPs,
\* the response-code breakdown); the error count is in the report only when
\* an error log is available, and the Messages section only when a message
\* store is configured.
C17_ErrorLogOptional ==
    Returned("generate_report")
    => /\ ret[1].exc = ""
       /\ HasLine("Total requests: ")
       /\ HasLine("Unique IPs: ")
       /\ HasLine("Response codes:")
       /\ HasLine("Errors logged: ") <=> call[1].args.error_log.exists
       /\ HasLine("## Messages") <=> call[1].args.msg_db # None

\* C21: print_report(access_log, error_log, msg_db, capsule_name, since,
\* until) prints exactly the lines of the report generated for that capsule
\* name and that message database: the name in the title line is its
\* capsule_name argument and the counts of the Messages section are those of
\* the store its msg_db argument names (no Messages section without one).
PrintedReport == Returned("print_report")

StoreNamed(msg_db) == IF msg_db = None THEN None ELSE Some(DbFiles[msg_db[1]])

C21_PrintReportArguments ==
    PrintedReport =>
        Parsed(ret[1].exc, ret[1].val) \in
            generate_report(call[1].args.access_log, call[1].args.error_log,
                            call[1].args.capsule_name,
                            StoreNamed(call[1].args.msg_db),
                            call[1].args.since, call[1].args.until,
                            "Monday 02 November 2026")

\* the sum over the codes of the count for each single code
RECURSIVE SumByCode(_, _)
SumByCode(df, codes) ==
    IF codes = <<>> THEN 0
    ELSE total_by_resp_code(df, Head(codes)) + SumByCode(df, Tail(codes))

\* C22: countByCodes(records, codes) returns the number of records whose
\* response code is a member of codes; for a list of distinct codes that is
\* the sum of countByCode(records, c) over c in codes, and it is 0 for an
\* empty list of codes.
C22_CountByCodes ==
    Returned("total_by_resp_codes") =>
        /\ ret[1].exc = ""
        /\ ret[1].val =
              Cardinality({k \in 1..Len(call[1].args.df.rows) :
                  \E j \in 1..Len(call[1].args.resp_codes) :
                      call[1].args.df.rows[k]["resp_code"] =
                          call[1].args.resp_codes[j]})
        /\ ret[1].val = SumByCode(call[1].args.df, call[1].args.resp_codes)
        /\ call[1].args.resp_codes = <<>> => ret[1].val = 0

====
